---- MODULE Spec2Model ----
(***************************************************************************)
(* The adaptive relay scheduler of lib/relay_selector: the weight kernel,  *)
(* the per-relay Statistics record, the RelaySelector registry with its    *)
(* three ranked lists, the checkout/return lifecycle of RelayHandle, the   *)
(* persistence round trip and the one-shot init gate of lib.rs.            *)
(*                                                                         *)
(* Numbers.  Weights are f32 in the source; here they are integers in      *)
(* thousandths (1.0 = 1000).  Durations are whole milliseconds.  Relay     *)
(* URLs are the integers 1 and 2, ordered as the URL strings are.          *)
(*                                                                         *)
(* Panics.  A Rust panic ends the call that raised it.  Every assignment   *)
(* the call made before the panicking statement keeps its value, because   *)
(* the selector lives in the thread-local slot and is not rolled back.     *)
(* Each operation therefore returns the selector it leaves behind together *)
(* with the way it ended ("ok", "err..." for a returned Err, "throw" for   *)
(* an exception thrown to JavaScript, "panic").                            *)
(*                                                                         *)
(* Specifications.  Spec: the calls of lib.rs on a selector made by        *)
(* RelaySelector::new and the handles they give out.  RoundTripSpec: Spec  *)
(* with the drop of the selector and a fresh init on the same store.       *)
(* GateSpec: three get_relay calls racing through the init gate of a cold  *)
(* process.  TraceSpec: the calls of Spec with the last call and its       *)
(* result kept as history, a configuration callback that may reject or     *)
(* throw, and a handle whose url field JavaScript may assign.  OrderSpec:  *)
(* the traced calls on the general list alone.  CallGateSpec: the gate of  *)
(* a cold or a warm process with the body of each call behind it.          *)
(* RecordSpec: the traced add and record calls alone.  CheckoutSpec: the   *)
(* traced calls with and without overflow checks.  LiveSpec: the calls of  *)
(* Spec with the release tasks of dropped handles scheduled fairly.        *)
(***************************************************************************)
EXTENDS Integers, Sequences, FiniteSets, TLC

\* ------------------------------------------------------------------ bounds
\* The code bounds nothing it stores; the model bounds the sum of the list
\* entries, the requests and samples recorded and the handles created.
MaxSize == 5

\* ------------------------------------------------------- program constants
CONNECTION_WEIGHT == 100
DEFAULT_WEIGHT == 1000
U8_MAX == 255

Urls == {1, 2}
\* enum relay::Variant.
Variants == {"General", "Inbox", "Outbox", "Local"}

\* Variant::from_str: the variant a relay-type string names, "None" if none.
from_str(s) ==
    CASE s = "general" -> "General"
      [] s = "inbox" -> "Inbox"
      [] s = "outbox" -> "Outbox"
      [] s = "local" -> "Local"
      [] OTHER -> "None"

\* Variant::to_string.
to_string(variant) ==
    CASE variant = "General" -> "general"
      [] variant = "Inbox" -> "inbox"
      [] variant = "Outbox" -> "outbox"
      [] variant = "Local" -> "local"

\* The relay_type strings the calls below are made with; "relay" names no
\* variant.  "outbox" is left out: every match on the variant treats Outbox
\* exactly as it treats Inbox.
RelayTypes == {"general", "inbox", "local", "relay"}
Durations == {1, 100}
Ranks == {0, 1, 2}

\* The configuration the host's callback serves: trust levels and vendor
\* scores per URL (a URL absent from the map reads as 0.0) and the server
\* allowlist.
TrustLevels == [u \in {1} |-> 500]
VendorScores == [u \in {2} |-> 200]
ServerAllowList == {1}

\* How a call of the configuration callback ends: the promise resolves to a
\* value of the expected shape; the promise rejects or its value does not
\* deserialize (an Err in config.rs); the callback itself throws, which
\* JsConfigProvider::get_config_value rethrows with unwrap_throw.
Fetches == {"ok", "rejects", "throws"}

\* The fetches of a callback that does not throw.
Returns == {"ok", "rejects"}

\* -------------------------------------------------------------- utilities
Put(f, k, v) == [x \in (DOMAIN f) \cup {k} |-> IF x = k THEN v ELSE f[x]]

Contains(s, x) == \E i \in 1..Len(s) : s[i] = x

\* Insert x into the ascending sequence s behind every element whose key is
\* not greater (what a stable sort does with equal keys).
InsertAscending(s, x, key) ==
    LET n == Cardinality({i \in 1..Len(s) : key[s[i]] <= key[x]})
    IN  SubSeq(s, 1, n) \o <<x>> \o SubSeq(s, n + 1, Len(s))

\* slice::sort / slice::sort_by with an ascending comparator: a stable sort.
RECURSIVE StableSortAscending(_, _)
StableSortAscending(s, key) ==
    IF s = <<>> THEN <<>>
    ELSE InsertAscending(StableSortAscending(SubSeq(s, 1, Len(s) - 1), key),
                         s[Len(s)], key)

Millis == [d \in Durations |-> d]

\* The elements of a finite set as a sequence, in some order.
RECURSIVE SetToSeq(_)
SetToSeq(S) ==
    IF S = {} THEN <<>>
    ELSE LET x == CHOOSE y \in S : TRUE IN <<x>> \o SetToSeq(S \ {x})

\* ------------------------------------------------------------ weight kernel
\* -log10(median_ms) + 1.0 in thousandths, keyed by twice the median so that
\* the mean of two samples stays an integer: medians 1, 50.5 and 100 ms.
ResponseTimeWeight(twiceMedian) ==
    CASE twiceMedian = 2 -> 1000
      [] twiceMedian = 101 -> -703
      [] twiceMedian = 200 -> -1000

\* weights::calculate_weights.  Sorts the samples in place, then indexes the
\* middle sample(s) (out of bounds on an empty slice), then divides the two
\* counters as i32 (division by zero when total_requests is 0).
calculate_weights(response_times, successful_requests, total_requests, trust_level_weight, preferred_vendor_weight, active_connections) ==
    LET Failed(sorted) ==
            [panic |-> TRUE, response_times |-> sorted,
             initial |-> 0, current |-> 0]
        Weighted(sorted, initial_weight) ==
            [panic |-> FALSE, response_times |-> sorted,
             initial |-> initial_weight,
             current |-> initial_weight
                         + active_connections * CONNECTION_WEIGHT]
        Rated(sorted, response_time_weight) ==
            IF total_requests = 0
            THEN Failed(sorted)
            ELSE Weighted(sorted,
                          response_time_weight
                              * (successful_requests \div total_requests)
                          + trust_level_weight
                          + preferred_vendor_weight)
        Median(sorted, len) ==
            IF len = 0
            THEN Failed(sorted)
            ELSE Rated(sorted,
                       ResponseTimeWeight(
                           IF len % 2 = 1
                           THEN 2 * sorted[(len \div 2) + 1]
                           ELSE sorted[(len \div 2) + 1]
                                + sorted[len \div 2]))
    IN  Median(StableSortAscending(response_times, Millis),
               Len(response_times))

\* -------------------------------------------------------- Statistics record
StatisticsNew ==
    [requests |-> 0, successful_requests |-> 0, response_times |-> <<>>,
     trust_level |-> 0, vendor_score |-> 0, active_connections |-> 0]

\* The tail every mutator shares: the kernel is run on the record as it
\* stands, and sorts the record's samples in place.
Recompute(st) ==
    LET Result(w) ==
            [stat |-> [st EXCEPT !.response_times = w.response_times],
             panic |-> w.panic, initial |-> w.initial, current |-> w.current]
    IN  Result(calculate_weights(st.response_times, st.successful_requests,
                                 st.requests, st.trust_level,
                                 st.vendor_score, st.active_connections))

add_response_time(st, d) ==
    Recompute([st EXCEPT !.response_times = Append(@, d)])

\* add_request with the two increments confused: every call counts as a
\* success and only successes count as requests.
add_request_confused(st, is_successful) ==
    Recompute([st EXCEPT !.successful_requests = @ + 1,
                         !.requests = IF is_successful THEN @ + 1 ELSE @])

add_request(st, is_successful) ==
    Recompute([st EXCEPT !.requests = @ + 1,
                         !.successful_requests =
                             IF is_successful THEN @ + 1 ELSE @])

\* `self.active_connections += 1` on a u8.  With overflow checks the
\* statement panics at 255 and assigns nothing; without them it wraps to 0.
add_active_connection(st, checks) ==
    IF st.active_connections = U8_MAX
    THEN IF checks
         THEN [stat |-> st, panic |-> TRUE, initial |-> 0, current |-> 0]
         ELSE Recompute([st EXCEPT !.active_connections = 0])
    ELSE Recompute([st EXCEPT !.active_connections = @ + 1])

\* `self.active_connections -= 1` on a u8.  With overflow checks the
\* statement panics at 0 and assigns nothing; without them it wraps to 255.
remove_active_connection(st, checks) ==
    IF st.active_connections = 0
    THEN IF checks
         THEN [stat |-> st, panic |-> TRUE, initial |-> 0, current |-> 0]
         ELSE Recompute([st EXCEPT !.active_connections = U8_MAX])
    ELSE Recompute([st EXCEPT !.active_connections = @ - 1])

\* The selector calls these two on Statistics; statistics.rs does not define
\* them.  They replace the field and recompute, like the four mutators above.
update_trust_level(st, v) == Recompute([st EXCEPT !.trust_level = v])

update_vendor_score(st, v) == Recompute([st EXCEPT !.vendor_score = v])

\* ------------------------------------------------------------ RelaySelector
\* RelaySelector::new: the registry as a record of its fields.
SelectorNew ==
    [statistics |-> <<>>, initial_weights |-> <<>>, current_weights |-> <<>>,
     general |-> <<>>, inbox |-> <<>>, outbox |-> <<>>]

\* The list a variant is pushed to: Local falls through to general.
PushList(variant) ==
    CASE variant = "General" -> "general"
      [] variant = "Inbox" -> "inbox"
      [] variant = "Outbox" -> "outbox"
      [] OTHER -> "general"

\* A weighted_sort followed by Vec::dedup: of adjacent equal URLs one is kept.
weighted_sort_dedup(relays, weights) ==
    LET Kept(s) == {i \in 1..Len(s) : i = 1 \/ s[i] # s[i - 1]}
        Dedup(s) ==
            [j \in 1..Cardinality(Kept(s)) |->
                s[CHOOSE i \in Kept(s) :
                      Cardinality({k \in Kept(s) : k <= i}) = j]]
    IN  IF relays = <<>> \/ DOMAIN weights = {}
        THEN [panic |-> TRUE, relays |-> relays]
        ELSE IF Len(relays) >= 2
                /\ \E i \in 1..Len(relays) : relays[i] \notin DOMAIN weights
             THEN [panic |-> TRUE, relays |-> relays]
             ELSE [panic |-> FALSE,
                   relays |-> Dedup(StableSortAscending(relays, weights))]

\* weights::weighted_sort: asserts a non-empty list and a non-empty weight
\* map, then sorts ascending by weight with total_cmp; the comparator asserts
\* that both relays it is handed have a weight.
weighted_sort(relays, weights) ==
    IF relays = <<>> \/ DOMAIN weights = {}
    THEN [panic |-> TRUE, relays |-> relays]
    ELSE IF Len(relays) >= 2
            /\ \E i \in 1..Len(relays) : relays[i] \notin DOMAIN weights
         THEN [panic |-> TRUE, relays |-> relays]
         ELSE [panic |-> FALSE,
               relays |-> StableSortAscending(relays, weights)]

\* The trailing `match variant { ... weighted_sort(...) ... _ => () }` of
\* insert, get_relay_by_weighted_round_robin and return_relay.
SortVariant(sel, variant) ==
    LET Sorted(r) ==
            [sel |-> [sel EXCEPT ![PushList(variant)] = r.relays],
             out |-> IF r.panic THEN "panic" ELSE "ok"]
    IN  IF variant \in {"General", "Inbox", "Outbox"}
        THEN Sorted(weighted_sort(sel[PushList(variant)],
                                  sel.current_weights))
        ELSE [sel |-> sel, out |-> "ok"]

\* RelaySelector::contains.
contains(sel, relay) ==
    Contains(sel.general, relay) \/ Contains(sel.inbox, relay)
        \/ Contains(sel.outbox, relay)

\* The shared body of the four update_weights_with_* methods:
\* get_mut_statistics(relay).unwrap(), the Statistics mutator, then both
\* weight maps are written.  r is the mutator's result for the stored record.
WriteWeights(sel, relay, r) ==
    IF r.panic
    THEN [sel |-> [sel EXCEPT !.statistics = Put(@, relay, r.stat)],
          out |-> "panic"]
    ELSE [sel |-> [sel EXCEPT !.statistics = Put(@, relay, r.stat),
                              !.initial_weights = Put(@, relay, r.initial),
                              !.current_weights = Put(@, relay, r.current)],
          out |-> "ok"]

update_weights_with_response_time(sel, relay, response_time) ==
    IF relay \notin DOMAIN sel.statistics
    THEN [sel |-> sel, out |-> "panic"]
    ELSE WriteWeights(sel, relay,
                      add_response_time(sel.statistics[relay], response_time))

\* A record that also re-sorts the three lists.
update_weights_with_request_sorting(sel, relay, success) ==
    LET Resorted(r) ==
            [sel |-> [r.sel EXCEPT
                        !.general = weighted_sort(@, r.sel.current_weights).relays,
                        !.inbox = weighted_sort(@, r.sel.current_weights).relays,
                        !.outbox = weighted_sort(@, r.sel.current_weights).relays],
             out |-> r.out]
    IN  IF relay \notin DOMAIN sel.statistics
        THEN [sel |-> sel, out |-> "panic"]
        ELSE Resorted(WriteWeights(sel, relay,
                                   add_request(sel.statistics[relay], success)))

update_weights_with_request(sel, relay, success) ==
    IF relay \notin DOMAIN sel.statistics
    THEN [sel |-> sel, out |-> "panic"]
    ELSE WriteWeights(sel, relay,
                      add_request(sel.statistics[relay], success))

update_weights_with_trust_level(sel, relay, trust_level) ==
    IF relay \notin DOMAIN sel.statistics
    THEN [sel |-> sel, out |-> "panic"]
    ELSE WriteWeights(sel, relay,
                      update_trust_level(sel.statistics[relay], trust_level))

update_weights_with_vendor_score(sel, relay, vendor_score) ==
    IF relay \notin DOMAIN sel.statistics
    THEN [sel |-> sel, out |-> "panic"]
    ELSE WriteWeights(sel, relay,
                      update_vendor_score(sel.statistics[relay], vendor_score))

\* config::get_trust_level / get_vendor_score: the map's entry for the URL,
\* 0.0 when the URL is absent or the fetch returned Err.
get_trust_level(fetched, relay_url) ==
    IF fetched = "ok" /\ relay_url \in DOMAIN TrustLevels
    THEN TrustLevels[relay_url] ELSE 0

get_vendor_score(fetched, relay_url) ==
    IF fetched = "ok" /\ relay_url \in DOMAIN VendorScores
    THEN VendorScores[relay_url] ELSE 0

\* insert without the registration of the relay's statistics.
insert_unregistered(sel, relay, variant, fetchedTrust, fetchedVendor) ==
    LET Registered(fresh) ==
            IF fetchedTrust = "throws"
            THEN [sel |-> fresh, out |-> "throw"]
            ELSE update_weights_with_trust_level(
                     fresh, relay, get_trust_level(fetchedTrust, relay))
        Fresh(pushed) ==
            [pushed EXCEPT
                !.initial_weights = Put(@, relay, DEFAULT_WEIGHT),
                !.current_weights = Put(@, relay, DEFAULT_WEIGHT)]
    IN  Registered(Fresh([sel EXCEPT
                             ![PushList(variant)] = Append(@, relay)]))

\* RelaySelector::insert.  Pushes the relay unconditionally, replaces its
\* statistics by a fresh record and both weights by DEFAULT_WEIGHT, fetches
\* and applies the configured trust level, then the vendor score, and sorts
\* the variant's list.  fetchedTrust and fetchedVendor say how the two
\* configuration fetches end.
insert(sel, relay, variant, fetchedTrust, fetchedVendor) ==
    LET Scored(v) ==
            IF v.out = "panic" THEN v ELSE SortVariant(v.sel, variant)
        Trusted(t) ==
            IF t.out = "panic" THEN t
            ELSE IF fetchedVendor = "throws"
            THEN [sel |-> t.sel, out |-> "throw"]
            ELSE Scored(update_weights_with_vendor_score(
                            t.sel, relay,
                            get_vendor_score(fetchedVendor, relay)))
        Registered(fresh) ==
            IF fetchedTrust = "throws"
            THEN [sel |-> fresh, out |-> "throw"]
            ELSE Trusted(update_weights_with_trust_level(
                             fresh, relay,
                             get_trust_level(fetchedTrust, relay)))
        Fresh(pushed) ==
            [pushed EXCEPT
                !.statistics = Put(@, relay, StatisticsNew),
                !.initial_weights = Put(@, relay, DEFAULT_WEIGHT),
                !.current_weights = Put(@, relay, DEFAULT_WEIGHT)]
    IN  Registered(Fresh([sel EXCEPT
                             ![PushList(variant)] = Append(@, relay)]))

\* The allowlist check with the default turned round: a fetch that returned
\* Err allows.
is_allowed_by_default(fetched, selected) ==
    fetched # "ok" \/ selected \in ServerAllowList

\* is_allowed in get_relay_by_weighted_round_robin: the fetched allowlist
\* holds the selected URL; false when the fetch returned Err.
is_allowed(fetched, selected) ==
    fetched = "ok" /\ selected \in ServerAllowList

\* ranked.get(rank) with the rank indexing that is off: past the end of the
\* list it reads the last entry.
RelayAtOrLast(ranked, rank) ==
    IF Len(ranked) = 0 THEN 0
    ELSE IF rank + 1 > Len(ranked) THEN ranked[Len(ranked)]
    ELSE ranked[rank + 1]

\* ranked.get(rank): the relay at the rank, None (0) past the end of the list.
RelayAt(ranked, rank) ==
    IF rank + 1 > Len(ranked) THEN 0 ELSE ranked[rank + 1]

\* RelaySelector::get_relay_by_weighted_round_robin.  `fetched` says how
\* the allowlist fetch ends (it is made whether or not the call is
\* server-side); `checks` whether the u8 arithmetic of this call is
\* overflow-checked (a debug build) or wraps (a release build).  The three
\* Err results differ in their message only: "err_variant" (unsupported
\* variant), "err_rank" (no relay at that rank), "err_allowed" (not allowed
\* from this server).
get_relay_by_weighted_round_robin(sel, variant, rank, is_server_side, fetched, checks) ==
    LET Failed(with, how) == [sel |-> with, out |-> how, url |-> 0]
        Sorted(r, selected) ==
            [sel |-> r.sel, out |-> r.out,
             url |-> IF r.out = "ok" THEN selected ELSE 0]
        Counted(w, selected) ==
            IF w.out = "panic"
            THEN Failed(w.sel, "panic")
            ELSE Sorted(SortVariant(w.sel, variant), selected)
        Selected(selected) ==
            IF fetched = "throws"
            THEN Failed(sel, "throw")
            ELSE IF is_server_side /\ ~is_allowed(fetched, selected)
            THEN Failed(sel, "err_allowed")
            ELSE IF selected \notin DOMAIN sel.statistics
            THEN Failed(sel, "panic")
            ELSE Counted(WriteWeights(sel, selected,
                             add_active_connection(sel.statistics[selected],
                                                   checks)),
                         selected)
        Ranked(selected) ==
            IF selected = 0
            THEN Failed(sel, "err_rank")
            ELSE Selected(selected)
    IN  IF variant \notin {"General", "Inbox", "Outbox"}
        THEN Failed(sel, "err_variant")
        ELSE Ranked(RelayAt(sel[PushList(variant)], rank))

\* RelaySelector::return_relay.
return_relay(sel, relay, variant, checks) ==
    LET Counted(w) ==
            IF w.out = "panic" THEN w ELSE SortVariant(w.sel, variant)
    IN  IF relay \notin DOMAIN sel.statistics
        THEN [sel |-> sel, out |-> "panic"]
        ELSE Counted(WriteWeights(sel, relay,
                         remove_active_connection(sel.statistics[relay],
                                                  checks)))

\* -------------------------------------------------------------- persistence
\* The persistent store: the records of the object store, keyed by URL, as a
\* function from the URLs stored to their records.
StoreNew == <<>>

\* database::Relay::from_repositories: asserts that the selector knows the
\* relay's initial weight, then copies the statistics and that weight.
from_repositories(url, variant, sel) ==
    IF url \notin DOMAIN sel.initial_weights \/ url \notin DOMAIN sel.statistics
    THEN [panic |-> TRUE]
    ELSE [panic |-> FALSE,
          url |-> url, variant |-> variant,
          requests |-> sel.statistics[url].requests,
          successful_requests |-> sel.statistics[url].successful_requests,
          response_times |-> sel.statistics[url].response_times,
          trust_level |-> sel.statistics[url].trust_level,
          vendor_score |-> sel.statistics[url].vendor_score,
          weight |-> sel.initial_weights[url]]

\* database::Relay::to_statistics: a fresh record with five fields copied.
to_statistics(relay) ==
    [StatisticsNew EXCEPT
        !.requests = relay.requests,
        !.successful_requests = relay.successful_requests,
        !.response_times = relay.response_times,
        !.trust_level = relay.trust_level,
        !.vendor_score = relay.vendor_score]

\* The records Drop for RelaySelector collects: general, then inbox, then
\* outbox, one record per list entry.
RelaysToSave(sel) ==
    [i \in 1..Len(sel.general) |->
        from_repositories(sel.general[i], "General", sel)]
    \o [i \in 1..Len(sel.inbox) |->
        from_repositories(sel.inbox[i], "Inbox", sel)]
    \o [i \in 1..Len(sel.outbox) |->
        from_repositories(sel.outbox[i], "Outbox", sel)]

\* database::insert_or_update: one put per record, in order; a put replaces
\* the record stored under the same key.
RECURSIVE insert_or_update(_, _)
insert_or_update(store, relays) ==
    IF relays = <<>> THEN store
    ELSE insert_or_update(Put(store, Head(relays).url, Head(relays)),
                          Tail(relays))

\* Drop for RelaySelector spawns the write on LocalPool::new().spawner().
\* The pool is a temporary: it is dropped at the end of the statement, with
\* the spawned future in its queue, and nothing ever runs it.
SaveTaskPolled == FALSE

\* Drop for RelaySelector: what the store holds afterwards.
DropRelaySelector(sel, store) ==
    LET Saved(relays) ==
            IF \E i \in 1..Len(relays) : relays[i].panic
            THEN [store |-> store, out |-> "panic"]
            ELSE [store |-> IF SaveTaskPolled
                            THEN insert_or_update(store, relays)
                            ELSE store,
                  out |-> "ok"]
    IN  Saved(RelaysToSave(sel))

\* database::get_all_relays: open_serde_cursor returns Err when the store
\* yields no cursor, which is what an empty store does; otherwise the
\* records in key order.
get_all_relays(store) ==
    LET Records(keys) == [i \in 1..Len(keys) |-> store[keys[i]]]
    IN  IF DOMAIN store = {}
        THEN [out |-> "err", relays |-> <<>>]
        ELSE [out |-> "ok",
              relays |-> Records(StableSortAscending(
                                     SetToSeq(DOMAIN store),
                                     [u \in DOMAIN store |-> u]))]

\* The loop of RelaySelector::init: insert the record's URL, then replace the
\* statistics by the record's and both weights by the record's weight.
RECURSIVE LoadRelays(_, _)
LoadRelays(sel, relays) ==
    LET Loaded(i, relay) ==
            IF i.out = "panic" THEN i
            ELSE LoadRelays(
                     [i.sel EXCEPT
                         !.statistics = Put(@, relay.url, to_statistics(relay)),
                         !.initial_weights = Put(@, relay.url, relay.weight),
                         !.current_weights = Put(@, relay.url, relay.weight)],
                     Tail(relays))
        Load(relay) ==
            Loaded(insert(sel, relay.url, relay.variant, "ok", "ok"), relay)
    IN  IF relays = <<>> THEN [sel |-> sel, out |-> "ok"]
        ELSE Load(Head(relays))

\* defaults::DEFAULT_GENERAL_RELAYS, which the inbox and outbox defaults alias.
DEFAULT_GENERAL_RELAYS == <<1, 2>>

RECURSIVE InsertAll(_, _, _)
InsertAll(sel, urls, variant) ==
    LET Inserted(i) ==
            IF i.out = "panic" THEN i
            ELSE InsertAll(i.sel, Tail(urls), variant)
    IN  IF urls = <<>> THEN [sel |-> sel, out |-> "ok"]
        ELSE Inserted(insert(sel, Head(urls), variant, "ok", "ok"))

\* RelaySelector::populate_defaults: the defaults go into each empty list.
populate_defaults(sel) ==
    LET Seed(r, variant) ==
            IF r.out = "panic" THEN r
            ELSE IF r.sel[PushList(variant)] = <<>>
            THEN InsertAll(r.sel, DEFAULT_GENERAL_RELAYS, variant)
            ELSE r
    IN  Seed(Seed(Seed([sel |-> sel, out |-> "ok"], "General"), "Inbox"),
             "Outbox")

\* RelaySelector::init: load the store into a new selector, then seed the
\* defaults if a list is still empty.  An Err of get_all_relays is returned.
init(store) ==
    LET Loaded(l) ==
            IF l.out = "panic" THEN l
            ELSE IF l.sel.general = <<>> \/ l.sel.inbox = <<>>
                    \/ l.sel.outbox = <<>>
            THEN populate_defaults(l.sel)
            ELSE l
        Read(all) ==
            IF all.out = "err" THEN [sel |-> SelectorNew, out |-> "err"]
            ELSE Loaded(LoadRelays(SelectorNew, all.relays))
    IN  Read(get_all_relays(store))

\* ------------------------------------------------------------------- state
VARIABLES
    statistics,        \* RelaySelector.statistics: URL -> Statistics
    initial_weights,   \* RelaySelector.initial_weights: URL -> weight
    current_weights,   \* RelaySelector.current_weights: URL -> weight
    general,           \* RelaySelector.general
    inbox,             \* RelaySelector.inbox
    outbox,            \* RelaySelector.outbox
    handles,           \* the RelayHandles created so far, in order of creation
    phase,             \* "live", "dropped" (selector dropped), "reloaded"
    store,             \* the persistent store: URL -> record
    reloaded,          \* what RelaySelector::init returned after the drop
    slot,              \* RELAY_SELECTOR holds Some(selector)
    provider,          \* CONFIG_PROVIDER holds Some(callback)
    mutex,             \* INIT_MUTEX: the task holding it, 0 if free
    pc,                \* where each get_relay call stands
    result,            \* what each get_relay call gave its caller
    init_runs,         \* runs of RelaySelector::init started
    store_reads,       \* reads of the store by get_all_relays
    slot_writes,       \* writes of Some(selector) into RELAY_SELECTOR
    unwinds,           \* the build unwinds on a panic (else it aborts the call
                       \* without running destructors, as on wasm32)
    last,              \* history: the last call made and how it ended
    baseline           \* history: the URL a rank-0 selection returned while
                       \* no handle was out, until a call changes the data

selVars == <<statistics, initial_weights, current_weights,
             general, inbox, outbox>>

persistVars == <<phase, store, reloaded>>

gateVars == <<slot, provider, mutex, pc, result, init_runs, store_reads,
              slot_writes, unwinds>>

vars == <<statistics, initial_weights, current_weights, general, inbox,
          outbox, handles, phase, store, reloaded, slot, provider, mutex,
          pc, result, init_runs, store_reads, slot_writes, unwinds, last,
          baseline>>

\* The history variables: the traced specifications write them, the others
\* leave them alone.
callVars == <<last, baseline>>

\* The selector in the thread-local slot, as a record.
Sel ==
    [statistics |-> statistics, initial_weights |-> initial_weights,
     current_weights |-> current_weights,
     general |-> general, inbox |-> inbox, outbox |-> outbox]

SetSel(sel) ==
    /\ statistics' = sel.statistics
    /\ initial_weights' = sel.initial_weights
    /\ current_weights' = sel.current_weights
    /\ general' = sel.general
    /\ inbox' = sel.inbox
    /\ outbox' = sel.outbox

\* The concurrent get_relay calls of the gate specification.
Tasks == {1, 2, 3}

\* RelaySelector::new(), and no handle yet.
SelectorInit ==
    /\ statistics = SelectorNew.statistics
    /\ initial_weights = SelectorNew.initial_weights
    /\ current_weights = SelectorNew.current_weights
    /\ general = SelectorNew.general
    /\ inbox = SelectorNew.inbox
    /\ outbox = SelectorNew.outbox
    /\ handles = <<>>

\* No call has been made.
NoCall ==
    [op |-> "none", relay_type |-> "", rank |-> 0, url |-> 0, out |-> "none"]

NoBaseline == [relay_type |-> "", url |-> 0]

CallsInit ==
    /\ last = NoCall
    /\ baseline = NoBaseline

\* No call of the gate specification has started.
TasksInit ==
    /\ mutex = 0
    /\ pc = [t \in Tasks |-> "idle"]
    /\ result = [t \in Tasks |-> "none"]
    /\ init_runs = 0
    /\ store_reads = 0
    /\ slot_writes = 0

\* The selector object as RelaySelector::new() makes it, standing in the
\* slot, over a store nothing was written to.  A panic ends the call it
\* happens in and unwinds: the borrow of the slot is released, what the call
\* had written stays, and later calls find the selector in that state.
Init ==
    /\ SelectorInit
    /\ TasksInit
    /\ CallsInit
    /\ phase = "live"
    /\ store = StoreNew
    /\ reloaded = [sel |-> SelectorNew, out |-> "none"]
    /\ slot = TRUE
    /\ provider = TRUE
    /\ unwinds = TRUE

\* ------------------------------------------------------- lib.rs: the calls
\* The calls take the relay type as a string: Variant::from_str on it, and
\* unwrap_throw on the result, which throws before the selector is touched.
\* lib.rs add_relay, behind the init gate: insert, whatever the lists hold.
add_relay(sel, relay_url, relay_type, fetchedTrust, fetchedVendor) ==
    IF from_str(relay_type) = "None"
    THEN [sel |-> sel, out |-> "throw"]
    ELSE insert(sel, relay_url, from_str(relay_type), fetchedTrust,
                fetchedVendor)

\* lib.rs record_request, behind the init gate.
record_request(sel, relay_url, is_success, relay_type, fetchedTrust, fetchedVendor) ==
    LET Added(i) ==
            IF i.out # "ok" THEN i
            ELSE update_weights_with_request(i.sel, relay_url, is_success)
    IN  IF from_str(relay_type) = "None"
        THEN [sel |-> sel, out |-> "throw"]
        ELSE IF ~contains(sel, relay_url)
        THEN Added(add_relay(sel, relay_url, relay_type, fetchedTrust,
                             fetchedVendor))
        ELSE update_weights_with_request(sel, relay_url, is_success)

\* lib.rs record_response_time, behind the init gate.
record_response_time(sel, relay_url, response_time, relay_type, fetchedTrust, fetchedVendor) ==
    LET Added(i) ==
            IF i.out # "ok" THEN i
            ELSE update_weights_with_response_time(i.sel, relay_url,
                                                   response_time)
    IN  IF from_str(relay_type) = "None"
        THEN [sel |-> sel, out |-> "throw"]
        ELSE IF ~contains(sel, relay_url)
        THEN Added(add_relay(sel, relay_url, relay_type, fetchedTrust,
                             fetchedVendor))
        ELSE update_weights_with_response_time(sel, relay_url, response_time)

\* lib.rs get_relay, behind the init gate: the selection; an Err is thrown
\* by unwrap_throw.
get_relay(sel, relay_type, relay_rank, is_server_side, fetched, checks) ==
    IF from_str(relay_type) = "None"
    THEN [sel |-> sel, out |-> "throw", url |-> 0]
    ELSE get_relay_by_weighted_round_robin(sel, from_str(relay_type),
             relay_rank, is_server_side, fetched, checks)

\* RelayHandle::new: the handle a successful get_relay hands to the caller.
RelayHandleNew(url, variant) ==
    [url |-> url, variant |-> to_string(variant), state |-> "live"]

\* Variant::from_str(handle.variant).unwrap_or(General) in RelayHandle::drop.
HandleVariant(h) ==
    IF from_str(h.variant) = "None" THEN "General" ELSE from_str(h.variant)

\* ----------------------------------------------------------------- actions
\* In these calls the configuration callback does not throw (the traced
\* calls below let it), and it answers the trust and vendor fetches: a failed
\* fetch reads as 0.0, which is also what URL 2, absent from both maps, reads
\* as.
\* Bounds on what a call may grow; the code has none of them.
RECURSIVE SumOver(_, _)
SumOver(S, f) ==
    IF S = {} THEN 0
    ELSE LET x == CHOOSE y \in S : TRUE IN f[x] + SumOver(S \ {x}, f)

TotalRequests ==
    SumOver(DOMAIN statistics,
            [u \in DOMAIN statistics |-> statistics[u].requests])

TotalSamples ==
    SumOver(DOMAIN statistics,
            [u \in DOMAIN statistics |-> Len(statistics[u].response_times)])

Size ==
    Len(general) + Len(inbox) + Len(outbox) + TotalRequests + TotalSamples
        + Len(handles)

\* A call that pushes a relay and records a datum grows the state by two.
RoomFor(n) == Size + n <= MaxSize

AddRelay(relay_url, relay_type) ==
    /\ phase = "live"
    /\ RoomFor(1)
    /\ SetSel(add_relay(Sel, relay_url, relay_type, "ok", "ok").sel)
    /\ UNCHANGED <<handles, persistVars, gateVars, callVars>>

RecordRequest(relay_url, is_success, relay_type) ==
    /\ phase = "live"
    /\ RoomFor(IF contains(Sel, relay_url) THEN 1 ELSE 2)
    /\ SetSel(record_request(Sel, relay_url, is_success, relay_type,
                             "ok", "ok").sel)
    /\ UNCHANGED <<handles, persistVars, gateVars, callVars>>

RecordResponseTime(relay_url, response_time, relay_type) ==
    /\ phase = "live"
    /\ RoomFor(IF contains(Sel, relay_url) THEN 1 ELSE 2)
    /\ SetSel(record_response_time(Sel, relay_url, response_time, relay_type,
                                   "ok", "ok").sel)
    /\ UNCHANGED <<handles, persistVars, gateVars, callVars>>

\* lib.rs get_relay, behind the init gate: on Ok the handle is made; after a
\* throw or a panic there is none.
GetRelay(relay_type, relay_rank, is_server_side, fetched, checks) ==
    LET Returned(r) ==
            /\ SetSel(r.sel)
            /\ handles' = IF r.out = "ok"
                          THEN Append(handles,
                                      RelayHandleNew(r.url,
                                                     from_str(relay_type)))
                          ELSE handles
    IN  /\ phase = "live"
        /\ RoomFor(1)
        /\ \A u \in DOMAIN statistics :
               \/ statistics[u].active_connections <= Len(handles)
               \/ statistics[u].active_connections = U8_MAX
        /\ Returned(get_relay(Sel, relay_type, relay_rank, is_server_side,
                              fetched, checks))
        /\ UNCHANGED <<persistVars, gateVars, callVars>>

\* RelayHandle::drop: the handle is gone and the release task is spawned.
DropHandle(h) ==
    /\ handles[h].state = "live"
    /\ handles' = [handles EXCEPT ![h].state = "dropped"]
    /\ UNCHANGED <<selVars, persistVars, gateVars, callVars>>

\* A spawn that leaves the release task unpolled, as LocalPool's spawner
\* does with the save task.
ReleaseTaskUnpolled == FALSE

\* RelayHandle::drop spawns its task with wasm_bindgen_futures::spawn_local,
\* which queues it on the microtask queue of the JavaScript event loop: the
\* task is polled.
ReleaseTaskPolled == TRUE

\* The task a dropped handle spawned is polled and runs to its end.
TaskRuns(h) ==
    /\ ReleaseTaskPolled
    /\ handles[h].state = "dropped"
    /\ handles' = [handles EXCEPT ![h].state = "returned"]

\* The task RelayHandle::drop spawned: return_relay on the selector.
ReleaseTask(h, checks) ==
    /\ TaskRuns(h)
    /\ SetSel(return_relay(Sel, handles[h].url, HandleVariant(handles[h]),
                           checks).sel)
    /\ UNCHANGED <<persistVars, gateVars, callVars>>

Next ==
    \/ \E u \in Urls, v \in RelayTypes : AddRelay(u, v)
    \/ \E u \in Urls, ok \in BOOLEAN, v \in RelayTypes :
           RecordRequest(u, ok, v)
    \/ \E u \in Urls, d \in Durations, v \in RelayTypes :
           RecordResponseTime(u, d, v)
    \/ \E v \in RelayTypes, rank \in Ranks, server \in BOOLEAN,
          fetched \in Returns, checks \in BOOLEAN :
           GetRelay(v, rank, server, fetched, checks)
    \/ \E h \in DOMAIN handles : DropHandle(h)
    \/ \E h \in DOMAIN handles, checks \in BOOLEAN : ReleaseTask(h, checks)

Spec == Init /\ [][Next]_vars

\* ------------------------------------------------- teardown and fresh start
\* Drop for RelaySelector.  The selector is dropped when the last Rc to it
\* goes, so no handle and no release task is left.  The fields are kept as
\* the state S the selector had when it was dropped.
Teardown ==
    /\ phase = "live"
    /\ \A h \in DOMAIN handles : handles[h].state = "returned"
    /\ phase' = "dropped"
    /\ store' = DropRelaySelector(Sel, store).store
    /\ UNCHANGED <<selVars, handles, reloaded, gateVars, callVars>>

\* RelaySelector::init on the same store, in a fresh process.
Reinit ==
    /\ phase = "dropped"
    /\ phase' = "reloaded"
    /\ reloaded' = init(store)
    /\ UNCHANGED <<selVars, handles, store, gateVars, callVars>>

RoundTripNext ==
    \/ Next
    \/ Teardown
    \/ Reinit

RoundTripSpec == Init /\ [][RoundTripNext]_vars

\* ------------------------------------------------------------ the init gate
\* A record an earlier run left in the store: one request, answered in 1 ms.
StoredRelay(url, variant) ==
    [url |-> url, variant |-> variant, requests |-> 1,
     successful_requests |-> 1, response_times |-> <<1>>,
     trust_level |-> 0, vendor_score |-> 0, weight |-> 2000]

\* What the store may hold when the process starts.
GateStores ==
    {StoreNew,
     [u \in {1} |-> StoredRelay(1, "General")],
     [u \in {1, 2} |-> StoredRelay(u, "Inbox")]}

\* A cold process: the slot is empty, no call has started.
GateInit ==
    /\ SelectorInit
    /\ TasksInit
    /\ CallsInit
    /\ phase = "live"
    /\ store \in GateStores
    /\ reloaded = [sel |-> SelectorNew, out |-> "none"]
    /\ slot = FALSE
    /\ provider \in BOOLEAN
    /\ unwinds \in BOOLEAN

\* lib.rs set_config_provider.
SetConfigProvider ==
    /\ ~provider
    /\ provider' = TRUE
    /\ UNCHANGED <<selVars, handles, persistVars, slot, mutex, pc, result,
                   init_runs, store_reads, slot_writes, unwinds, callVars>>

\* A gate that lets every call through.
relay_selector_is_anything == TRUE

\* lib.rs relay_selector_is_some.
relay_selector_is_some == slot

\* A throw or panic of task t while it holds the init mutex: the call ends;
\* the guard is dropped only if the build unwinds.
Throws(t, what) ==
    /\ pc' = [pc EXCEPT ![t] = "done"]
    /\ result' = [result EXCEPT ![t] = what]
    /\ mutex' = IF unwinds THEN 0 ELSE t

\* ensure_relay_selector_initialized from the acquisition of the mutex to
\* the first await of RelaySelector::init: the second check of the slot, the
\* expect on the configuration provider, the start of init.
Acquired(t) ==
    IF relay_selector_is_some
    THEN /\ mutex' = 0
         /\ pc' = [pc EXCEPT ![t] = "ready"]
         /\ UNCHANGED <<result, init_runs>>
    ELSE IF ~provider
    THEN /\ Throws(t, "no_provider")
         /\ UNCHANGED init_runs
    ELSE /\ mutex' = t
         /\ pc' = [pc EXCEPT ![t] = "init"]
         /\ init_runs' = init_runs + 1
         /\ UNCHANGED result

\* get_relay up to its first suspension: the fast path of the gate, then
\* the lock, which is taken at once if the mutex is free.
Enter(t) ==
    /\ pc[t] = "idle"
    /\ IF relay_selector_is_some
       THEN /\ pc' = [pc EXCEPT ![t] = "ready"]
            /\ UNCHANGED <<mutex, result, init_runs>>
       ELSE IF mutex = 0
       THEN Acquired(t)
       ELSE /\ pc' = [pc EXCEPT ![t] = "waiting"]
            /\ UNCHANGED <<mutex, result, init_runs>>
    /\ UNCHANGED <<selVars, handles, persistVars, slot, provider,
                   store_reads, slot_writes, unwinds, callVars>>

\* A task suspended in mutex.lock().await gets the mutex.
Wake(t) ==
    /\ pc[t] = "waiting"
    /\ mutex = 0
    /\ Acquired(t)
    /\ UNCHANGED <<selVars, handles, persistVars, slot, provider,
                   store_reads, slot_writes, unwinds, callVars>>

\* RelaySelector::init runs to its end, and the gate after it: unwrap_throw
\* on the result, the write of the slot if it is still None, the release.
InitDone(t) ==
    LET Returned(r) ==
            IF r.out = "ok"
            THEN /\ IF slot
                    THEN UNCHANGED <<selVars, slot, slot_writes>>
                    ELSE /\ SetSel(r.sel)
                         /\ slot' = TRUE
                         /\ slot_writes' = slot_writes + 1
                 /\ mutex' = 0
                 /\ pc' = [pc EXCEPT ![t] = "ready"]
                 /\ UNCHANGED result
            ELSE /\ Throws(t, IF r.out = "err" THEN "init_err"
                                                ELSE "init_panic")
                 /\ UNCHANGED <<selVars, slot, slot_writes>>
    IN  /\ pc[t] = "init"
        /\ store_reads' = store_reads + 1
        /\ Returned(init(store))
        /\ UNCHANGED <<handles, persistVars, provider, init_runs, unwinds,
                       callVars>>

GateNext ==
    \/ SetConfigProvider
    \/ \E t \in Tasks : Enter(t)
    \/ \E t \in Tasks : Wake(t)
    \/ \E t \in Tasks : InitDone(t)

GateSpec == GateInit /\ [][GateNext]_vars

\* --------------------------------------------- the calls behind the gate
\* A process that is cold, or warm with a selector already in the slot; the
\* calls are get_relay("general", 0) and add_relay(u, "general"), and each
\* goes on behind the gate.
CallGateInit ==
    /\ SelectorInit
    /\ TasksInit
    /\ CallsInit
    /\ phase = "live"
    /\ store \in GateStores
    /\ reloaded = [sel |-> SelectorNew, out |-> "none"]
    /\ slot \in BOOLEAN
    /\ provider \in BOOLEAN
    /\ unwinds = TRUE

\* What follows ensure_relay_selector_initialized(..).await in get_relay:
\* the borrow of the slot, unwrap_throw on the Option in it, the selection.
GetRelayBody(t) ==
    LET Returned(r) ==
            /\ SetSel(r.sel)
            /\ handles' = IF r.out = "ok"
                          THEN Append(handles, RelayHandleNew(r.url, "General"))
                          ELSE handles
            /\ result' = [result EXCEPT ![t] = IF r.out = "ok" THEN "handle"
                                                ELSE "get_" \o r.out]
    IN  /\ pc[t] = "ready"
        /\ pc' = [pc EXCEPT ![t] = "done"]
        /\ IF slot
           THEN Returned(get_relay(Sel, "general", 0, FALSE, "ok", TRUE))
           ELSE /\ result' = [result EXCEPT ![t] = "no_selector"]
                /\ UNCHANGED <<selVars, handles>>
        /\ UNCHANGED <<persistVars, slot, provider, mutex, init_runs,
                       store_reads, slot_writes, unwinds, callVars>>

\* The same in add_relay: the borrow, unwrap_throw, the insert.
AddRelayBody(t, relay_url) ==
    LET Returned(r) ==
            /\ SetSel(r.sel)
            /\ result' = [result EXCEPT ![t] = "add_" \o r.out]
    IN  /\ pc[t] = "ready"
        /\ pc' = [pc EXCEPT ![t] = "done"]
        /\ IF slot
           THEN Returned(add_relay(Sel, relay_url, "general", "ok", "ok"))
           ELSE /\ result' = [result EXCEPT ![t] = "no_selector"]
                /\ UNCHANGED selVars
        /\ UNCHANGED <<handles, persistVars, slot, provider, mutex,
                       init_runs, store_reads, slot_writes, unwinds, callVars>>

CallGateNext ==
    \/ SetConfigProvider
    \/ \E t \in Tasks : Enter(t)
    \/ \E t \in Tasks : Wake(t)
    \/ \E t \in Tasks : InitDone(t)
    \/ \E t \in Tasks : GetRelayBody(t)
    \/ \E t \in Tasks, u \in Urls : AddRelayBody(t, u)

CallGateSpec == CallGateInit /\ [][CallGateNext]_vars

\* ------------------------------------------------------- the traced calls
\* The same calls, with the history of the last call kept, and with the
\* configuration callback free to answer, reject or throw in every call.
\* Every step writes `last`, so a step whose last'.op names a call is a step
\* of that call, made in the state the step starts from.
\* The bound on what the traced calls may grow.
MaxTrace == 4

\* The record of a call and of how it ended: the relay type and the rank of
\* a get_relay, the URL the call was about or returned.
Call(op, relay_type, rank, url, out) ==
    [op |-> op, relay_type |-> relay_type, rank |-> rank, url |-> url,
     out |-> out]

\* Every handle made so far has been dropped and its return applied.
NoneOut == \A h \in DOMAIN handles : handles[h].state = "returned"

TracedAddRelay(relay_url, relay_type, fetchedTrust, fetchedVendor) ==
    LET Returned(r) ==
            /\ SetSel(r.sel)
            /\ last' = Call("add_relay", "", 0, relay_url, r.out)
    IN  /\ phase = "live"
        /\ Returned(add_relay(Sel, relay_url, relay_type, fetchedTrust,
                              fetchedVendor))
        /\ baseline' = NoBaseline
        /\ UNCHANGED <<handles, persistVars, gateVars>>

TracedRecordRequest(relay_url, is_success, relay_type, fetchedTrust, fetchedVendor) ==
    LET Returned(r) ==
            /\ SetSel(r.sel)
            /\ last' = Call("record_request", "", 0, relay_url, r.out)
    IN  /\ phase = "live"
        /\ Returned(record_request(Sel, relay_url, is_success, relay_type,
                                   fetchedTrust, fetchedVendor))
        /\ baseline' = NoBaseline
        /\ UNCHANGED <<handles, persistVars, gateVars>>

TracedRecordResponseTime(relay_url, response_time, relay_type, fetchedTrust, fetchedVendor) ==
    LET Returned(r) ==
            /\ SetSel(r.sel)
            /\ last' = Call("record_response_time", "", 0, relay_url, r.out)
    IN  /\ phase = "live"
        /\ Returned(record_response_time(Sel, relay_url, response_time,
                                         relay_type, fetchedTrust,
                                         fetchedVendor))
        /\ baseline' = NoBaseline
        /\ UNCHANGED <<handles, persistVars, gateVars>>

\* get_relay; the baseline is taken by a successful rank-0 selection made
\* while no handle is out on a list that weighted_sort would leave as it is,
\* and is lost by a call that does not end well.
TracedGetRelay(relay_type, relay_rank, is_server_side, fetched, checks) ==
    LET Returned(r) ==
            /\ SetSel(r.sel)
            /\ handles' = IF r.out = "ok"
                          THEN Append(handles,
                                      RelayHandleNew(r.url,
                                                     from_str(relay_type)))
                          ELSE handles
            /\ last' = Call("get_relay", relay_type, relay_rank, r.url, r.out)
            /\ baseline' =
                   IF /\ r.out = "ok" /\ relay_rank = 0 /\ NoneOut
                      /\ SortVariant(Sel, from_str(relay_type)).sel = Sel
                   THEN [relay_type |-> relay_type, url |-> r.url]
                   ELSE IF r.out \in {"panic", "throw"} /\ r.sel # Sel
                   THEN NoBaseline
                   ELSE baseline
    IN  /\ phase = "live"
        /\ \A u \in DOMAIN statistics :
               \/ statistics[u].active_connections <= Len(handles)
               \/ statistics[u].active_connections = U8_MAX
        /\ Returned(get_relay(Sel, relay_type, relay_rank, is_server_side,
                              fetched, checks))
        /\ UNCHANGED <<persistVars, gateVars>>

\* The url field of RelayHandle is public with a generated getter and
\* setter: JavaScript assigns it.
SetHandleUrl(h, relay_url) ==
    /\ handles[h].state = "live"
    /\ handles[h].url # relay_url
    /\ handles' = [handles EXCEPT ![h].url = relay_url]
    /\ last' = Call("set_url", "", 0, relay_url, "ok")
    /\ baseline' = NoBaseline
    /\ UNCHANGED <<selVars, persistVars, gateVars>>

TracedDropHandle(h) ==
    /\ handles[h].state = "live"
    /\ handles' = [handles EXCEPT ![h].state = "dropped"]
    /\ last' = Call("drop", "", 0, handles[h].url, "ok")
    /\ UNCHANGED <<selVars, persistVars, gateVars, baseline>>

TracedReleaseTask(h, checks) ==
    LET Returned(r) ==
            /\ SetSel(r.sel)
            /\ last' = Call("return_relay", "", 0, handles[h].url, r.out)
            /\ baseline' = IF r.out = "ok" THEN baseline ELSE NoBaseline
    IN  /\ handles[h].state = "dropped"
        /\ Returned(return_relay(Sel, handles[h].url,
                                 HandleVariant(handles[h]), checks))
        /\ handles' = [handles EXCEPT ![h].state = "returned"]
        /\ UNCHANGED <<persistVars, gateVars>>

\* Room for n more entries under the bound max.
Room(n, max) == Size + n <= max

\* The ranks asked for: the first, and one that is past the end of a list
\* of one relay.
TraceRanks == {0, 1}

\* Within one call the callback answers the trust fetch and the vendor
\* fetch alike.  What the data recorded are and whether the arithmetic of a
\* selection is overflow-checked is varied by the untraced calls above; here
\* the requests succeed, the response times are 1 ms and the selections are
\* overflow-checked.
TraceNext ==
    \/ \E u \in Urls, v \in RelayTypes, f \in Fetches :
           Room(1, MaxTrace) /\ TracedAddRelay(u, v, f, f)
    \/ \E u \in Urls, v \in RelayTypes, f \in Fetches :
           /\ Room(IF contains(Sel, u) THEN 1 ELSE 2, MaxTrace)
           /\ TracedRecordRequest(u, TRUE, v, f, f)
    \/ \E u \in Urls, v \in RelayTypes, f \in Fetches :
           /\ Room(IF contains(Sel, u) THEN 1 ELSE 2, MaxTrace)
           /\ TracedRecordResponseTime(u, 1, v, f, f)
    \/ \E v \in RelayTypes, rank \in TraceRanks, server \in BOOLEAN,
          fetched \in Fetches :
           Room(1, MaxTrace) /\ TracedGetRelay(v, rank, server, fetched, TRUE)
    \/ \E h \in DOMAIN handles, u \in Urls : SetHandleUrl(h, u)
    \/ \E h \in DOMAIN handles : TracedDropHandle(h)
    \/ \E h \in DOMAIN handles, checks \in BOOLEAN :
           TracedReleaseTask(h, checks)

TraceSpec == Init /\ [][TraceNext]_vars

\* ------------------------------------------------ the order of selection
\* The traced calls on the general list alone, with a configuration callback
\* that answers, overflow-checked arithmetic and no assignment to a handle:
\* what is left is the order in which the list hands out its relays.
MaxOrder == 6

OrderRanks == {0, 1}

OrderNext ==
    \/ \E u \in Urls :
           Room(1, MaxOrder) /\ TracedAddRelay(u, "general", "ok", "ok")
    \/ \E u \in Urls, ok \in BOOLEAN :
           /\ Room(IF contains(Sel, u) THEN 1 ELSE 2, MaxOrder)
           /\ TracedRecordRequest(u, ok, "general", "ok", "ok")
    \/ \E u \in Urls, d \in Durations :
           /\ Room(IF contains(Sel, u) THEN 1 ELSE 2, MaxOrder)
           /\ TracedRecordResponseTime(u, d, "general", "ok", "ok")
    \/ \E rank \in OrderRanks :
           /\ Room(1, MaxOrder)
           /\ TracedGetRelay("general", rank, FALSE, "ok", TRUE)
    \/ \E h \in DOMAIN handles : TracedDropHandle(h)
    \/ \E h \in DOMAIN handles : TracedReleaseTask(h, TRUE)

OrderSpec == Init /\ [][OrderNext]_vars

\* ------------------------------------------------------ the recorded data
\* The traced add_relay, record_request and record_response_time on the
\* general list, with a configuration callback that answers: long enough for
\* two relays to have a weight each and for one more datum after that.
MaxRecord == 7

RecordNext ==
    \/ \E u \in Urls :
           Room(1, MaxRecord) /\ TracedAddRelay(u, "general", "ok", "ok")
    \/ \E u \in Urls, ok \in BOOLEAN :
           /\ Room(IF contains(Sel, u) THEN 1 ELSE 2, MaxRecord)
           /\ TracedRecordRequest(u, ok, "general", "ok", "ok")
    \/ \E u \in Urls, d \in Durations :
           /\ Room(IF contains(Sel, u) THEN 1 ELSE 2, MaxRecord)
           /\ TracedRecordResponseTime(u, d, "general", "ok", "ok")

RecordSpec == Init /\ [][RecordNext]_vars

\* ------------------------------------------------------- the u8 counter
\* The traced calls on the general list in both builds: a selection and a
\* return are made with overflow checks or without them.  The requests
\* succeed and the response times are 1 ms.
MaxCheckout == 6

CheckoutNext ==
    \/ \E u \in Urls :
           Room(1, MaxCheckout) /\ TracedAddRelay(u, "general", "ok", "ok")
    \/ \E u \in Urls :
           /\ Room(IF contains(Sel, u) THEN 1 ELSE 2, MaxCheckout)
           /\ TracedRecordRequest(u, TRUE, "general", "ok", "ok")
    \/ \E u \in Urls :
           /\ Room(IF contains(Sel, u) THEN 1 ELSE 2, MaxCheckout)
           /\ TracedRecordResponseTime(u, 1, "general", "ok", "ok")
    \/ \E rank \in TraceRanks, checks \in BOOLEAN :
           /\ Room(1, MaxCheckout)
           /\ TracedGetRelay("general", rank, FALSE, "ok", checks)
    \/ \E h \in DOMAIN handles : TracedDropHandle(h)
    \/ \E h \in DOMAIN handles, checks \in BOOLEAN :
           TracedReleaseTask(h, checks)

CheckoutSpec == Init /\ [][CheckoutNext]_vars

\* ------------------------------------------------- the release of handles
\* The calls of Spec on the general list under a bound of their own, with
\* the spawned release tasks scheduled fairly: the event loop runs a queued
\* task once the running call has returned.  The steps in which a task runs
\* are the ReleaseTask steps.
MaxLive == 4

LiveNext ==
    \/ \E u \in Urls : Room(1, MaxLive) /\ AddRelay(u, "general")
    \/ \E u \in Urls, ok \in BOOLEAN :
           /\ Room(IF contains(Sel, u) THEN 1 ELSE 2, MaxLive)
           /\ RecordRequest(u, ok, "general")
    \/ \E u \in Urls, d \in Durations :
           /\ Room(IF contains(Sel, u) THEN 1 ELSE 2, MaxLive)
           /\ RecordResponseTime(u, d, "general")
    \/ \E rank \in TraceRanks, checks \in BOOLEAN :
           Room(1, MaxLive) /\ GetRelay("general", rank, FALSE, "ok", checks)
    \/ \E h \in DOMAIN handles : DropHandle(h)
    \/ \E h \in DOMAIN handles, checks \in BOOLEAN : ReleaseTask(h, checks)

LiveSpec ==
    /\ Init
    /\ [][LiveNext]_vars
    /\ WF_handles(\E h \in DOMAIN handles : TaskRuns(h))

\* ------------------------------------------------------------------ claims
Lists == <<general, inbox, outbox>>

Known == DOMAIN statistics

\* The handles for relay u that get_relay returned and whose return has not
\* been applied.
LiveHandles(u) ==
    {h \in DOMAIN handles : handles[h].url = u /\ handles[h].state # "returned"}

\* C1: for every known URL, active_connections is the number of handles for
\* it that were handed out and not yet returned.
C1_ActiveMatchesHandles ==
    \A u \in Known :
        statistics[u].active_connections = Cardinality(LiveHandles(u))

\* A list is in the claimed order: descending current weight, equal weights
\* in ascending URL order.
SortedDescendingBy(list, weights) ==
    \A i, j \in 1..Len(list) :
        i < j =>
            \/ weights[list[i]] > weights[list[j]]
            \/ /\ weights[list[i]] = weights[list[j]]
               /\ list[i] <= list[j]

\* A step that is a public call (or a handle's return) running to completion,
\* neither panicking nor returning Err.
CompletedCall ==
    \/ \E u \in Urls, v \in RelayTypes :
           /\ AddRelay(u, v)
           /\ add_relay(Sel, u, v, "ok", "ok").out = "ok"
    \/ \E u \in Urls, ok \in BOOLEAN, v \in RelayTypes :
           /\ RecordRequest(u, ok, v)
           /\ record_request(Sel, u, ok, v, "ok", "ok").out = "ok"
    \/ \E u \in Urls, d \in Durations, v \in RelayTypes :
           /\ RecordResponseTime(u, d, v)
           /\ record_response_time(Sel, u, d, v, "ok", "ok").out = "ok"
    \/ \E v \in RelayTypes, rank \in Ranks, server \in BOOLEAN,
          fetched \in Fetches, checks \in BOOLEAN :
           /\ GetRelay(v, rank, server, fetched, checks)
           /\ get_relay(Sel, v, rank, server, fetched, checks).out = "ok"
    \/ \E h \in DOMAIN handles, checks \in BOOLEAN :
           /\ ReleaseTask(h, checks)
           /\ return_relay(Sel, handles[h].url, HandleVariant(handles[h]),
                           checks).out = "ok"

\* C2: after every public call that completes, each of the three lists is
\* sorted in descending order of current weight, ties in ascending URL order.
C2_ListsSortedDescending ==
    [][CompletedCall =>
          /\ SortedDescendingBy(general', current_weights')
          /\ SortedDescendingBy(inbox', current_weights')
          /\ SortedDescendingBy(outbox', current_weights')]_vars

\* C3: every URL in a list has an entry in statistics, in initial_weights
\* and in current_weights.
C3_ListedUrlsAreRegistered ==
    \A k \in 1..3 : \A i \in 1..Len(Lists[k]) :
        /\ Lists[k][i] \in DOMAIN statistics
        /\ Lists[k][i] \in DOMAIN initial_weights
        /\ Lists[k][i] \in DOMAIN current_weights

\* C3's case: relays have been inserted into two different lists.
C3_Witness ==
    /\ general # <<>>
    /\ inbox # <<>>

\* C4: for every known URL the current weight is the initial weight plus
\* CONNECTION_WEIGHT for each active connection.
C4_CurrentIsInitialPlusLoad ==
    \A u \in Known :
        current_weights[u] =
            initial_weights[u]
                + statistics[u].active_connections * CONNECTION_WEIGHT

C8_ReturnDecrementsOnce ==
    [][\A h \in DOMAIN handles, checks \in BOOLEAN :
          ReleaseTask(h, checks) =>
              /\ handles[h].url \in DOMAIN statistics
              /\ statistics'[handles[h].url].active_connections
                     = statistics[handles[h].url].active_connections - 1]_vars

\* C10: insert of a URL into a variant whose list already holds it changes
\* nothing: not the list, not the statistics, not the weights.
C10_InsertIdempotent ==
    [][\A u \in Urls, v \in RelayTypes :
          (/\ AddRelay(u, v)
           /\ from_str(v) # "None"
           /\ Contains(Sel[PushList(from_str(v))], u))
              => UNCHANGED selVars]_vars

\* A call has left the init gate, by passing it or by a throw out of init.
LeftGate(t) ==
    \/ pc[t] = "ready"
    \/ pc[t] = "done" /\ result[t] # "no_provider"

\* C6: when calls race on a cold process, RelaySelector::init runs exactly
\* once, the store is read exactly once and the slot is written exactly once:
\* as soon as one call has left the gate, each of the three has happened once.
C6_InitExactlyOnce ==
    (\E t \in Tasks : LeftGate(t)) =>
        /\ init_runs = 1
        /\ store_reads = 1
        /\ slot_writes = 1

\* C7: with the configuration provider set, concurrent get_relay calls on a
\* cold process all complete successfully: none of them ends by a throw.
C7_ConcurrentCallsSucceed ==
    \A t \in Tasks :
        (pc[t] = "done" /\ result[t] # "no_provider") => result[t] = "handle"

\* The URLs of a list, as a set.
Members(list) == {list[i] : i \in 1..Len(list)}

\* C9: dropping the selector in state S and running init afresh on the store
\* gives a selector with S's statistics, S's initial weights, current weights
\* equal to the initial ones, and S's list memberships.
C9_SaveThenInitRoundTrips ==
    phase = "reloaded" =>
        /\ reloaded.out = "ok"
        /\ DOMAIN reloaded.sel.statistics = DOMAIN statistics
        /\ \A u \in DOMAIN statistics :
               /\ reloaded.sel.statistics[u] =
                      [statistics[u] EXCEPT !.active_connections = 0]
               /\ reloaded.sel.initial_weights[u] = initial_weights[u]
               /\ reloaded.sel.current_weights[u] = initial_weights[u]
        /\ Members(reloaded.sel.general) = Members(general)
        /\ Members(reloaded.sel.inbox) = Members(inbox)
        /\ Members(reloaded.sel.outbox) = Members(outbox)

\* The variants get_relay_by_weighted_round_robin has a list for.
ListVariants == {"General", "Inbox", "Outbox"}

\* C11: a get_relay whose variant's list has fewer than rank + 1 entries
\* fails with the no-relay-at-that-rank error, changes no statistics, no
\* weight and no list, and makes no handle.
C11_RankOutOfRangeFails ==
    [][(/\ last'.op = "get_relay"
        /\ from_str(last'.relay_type) \in ListVariants
        /\ Len(Sel[PushList(from_str(last'.relay_type))]) < last'.rank + 1)
           => /\ last'.out = "err_rank"
              /\ UNCHANGED <<selVars, handles>>]_vars

\* A get_relay has just failed on a rank one past the end of a list that
\* holds relays.
C11_Witness ==
    /\ last.op = "get_relay"
    /\ last.out = "err_rank"
    /\ from_str(last.relay_type) \in ListVariants
    /\ Len(Sel[PushList(from_str(last.relay_type))]) = last.rank
    /\ last.rank > 0

C13_CheckoutSaturatesAt255 ==
    [][\A v \in RelayTypes, rank \in Ranks, checks \in BOOLEAN :
          LET Saturated(selected) ==
                  (/\ selected \in Known
                   /\ statistics[selected].active_connections = U8_MAX
                   /\ GetRelay(v, rank, FALSE, "ok", checks))
                      => /\ get_relay(Sel, v, rank, FALSE, "ok", checks).out
                                \notin {"ok", "panic"}
                         /\ statistics'[selected].active_connections = U8_MAX
                         /\ handles' = handles
          IN  from_str(v) \in ListVariants
                  => Saturated(RelayAt(Sel[PushList(from_str(v))], rank))]_vars

\* C14: the return of a URL whose active_connections is 0 leaves the counter
\* at 0 and both weights as they were, and raises no error.
C14_ReturnAtZeroIsClamped ==
    [][\A h \in DOMAIN handles, checks \in BOOLEAN :
          (/\ handles[h].url \in Known
           /\ statistics[handles[h].url].active_connections = 0
           /\ ReleaseTask(h, checks))
              => /\ return_relay(Sel, handles[h].url,
                                 HandleVariant(handles[h]), checks).out = "ok"
                 /\ statistics'[handles[h].url].active_connections = 0
                 /\ initial_weights' = initial_weights
                 /\ current_weights' = current_weights]_vars

\* C15: the return of a URL that has no statistics entry is a soft error: it
\* does not panic and it changes no statistics, no weight and no list.
C15_ReturnOfUnknownUrlIsSoft ==
    [][(last'.op = "return_relay" /\ last'.url \notin Known)
          => /\ last'.out # "panic"
             /\ UNCHANGED selVars]_vars

\* C16: on a cold start over an empty store, with the configuration provider
\* set, a get_relay call gets through initialization: init ends without a
\* storage error, the selector is in the slot and its general list holds the
\* seeded relays.
C16_ColdStartOnEmptyStore ==
    \A t \in Tasks :
        (store = StoreNew /\ provider /\ LeftGate(t))
            => /\ result[t] # "init_err"
               /\ slot
               /\ Members(DEFAULT_GENERAL_RELAYS) \subseteq Members(general)

C20_RecordSurvivesConfigFailure ==
    [][\A u \in Urls \ Known, f \in {"rejects", "throws"} :
          /\ TracedRecordRequest(u, TRUE, "general", f, f)
                 => /\ last'.out = "ok"
                    /\ u \in DOMAIN statistics'
                    /\ statistics'[u].trust_level = 0
                    /\ statistics'[u].vendor_score = 0
                    /\ statistics'[u].requests = 1
          /\ TracedRecordResponseTime(u, 1, "general", f, f)
                 => /\ last'.out = "ok"
                    /\ u \in DOMAIN statistics'
                    /\ statistics'[u].trust_level = 0
                    /\ statistics'[u].vendor_score = 0
                    /\ statistics'[u].response_times = <<1>>]_vars

\* C21: a call that reaches the init gate before set_config_provider fails
\* there: the step in which it fails leaves the slot empty, reads nothing
\* from the store, and leaves the init mutex free for a later call.
C21_NoProviderFailsAndReleases ==
    [][\A t \in Tasks :
          (result'[t] = "no_provider" /\ result[t] # "no_provider")
              => /\ ~slot'
                 /\ store_reads' = store_reads
                 /\ mutex' # t]_vars

C23_TeardownWritesEveryRelay ==
    [][Teardown
          => /\ DropRelaySelector(Sel, store).out = "ok"
             /\ \A u \in Members(general) \cup Members(inbox)
                           \cup Members(outbox) :
                    u \in DOMAIN store']_vars

C25_RecordLeavesListsAlone ==
    [][(/\ last'.op \in {"record_request", "record_response_time"}
        /\ contains(Sel, last'.url))
          => /\ general' = general
             /\ inbox' = inbox
             /\ outbox' = outbox
             /\ DOMAIN statistics' = DOMAIN statistics
             /\ \A u \in Urls \ {last'.url} :
                    /\ u \in DOMAIN statistics
                           => statistics'[u] = statistics[u]
                    /\ u \in DOMAIN initial_weights'
                           <=> u \in DOMAIN initial_weights
                    /\ u \in DOMAIN initial_weights
                           => initial_weights'[u] = initial_weights[u]
                    /\ u \in DOMAIN current_weights'
                           <=> u \in DOMAIN current_weights
                    /\ u \in DOMAIN current_weights
                           => current_weights'[u] = current_weights[u]]_vars

\* A record has ended well on a list of two relays that both have a weight,
\* and has left the list in an order that weighted_sort would change.
C25_Witness ==
    /\ last.op \in {"record_request", "record_response_time"}
    /\ last.out = "ok"
    /\ Len(general) = 2
    /\ \A i \in 1..2 : general[i] \in DOMAIN current_weights
    /\ weighted_sort(general, current_weights).relays # general

\* C26: once a call has left the gate of a process whose store holds records,
\* init has seeded the defaults only into the lists that no record went to:
\* a list that records went to holds exactly their URLs, and every other list
\* holds exactly the default relays.
C26_DefaultsOnlyIntoEmptyLists ==
    \A t \in Tasks :
        (store # StoreNew /\ LeftGate(t))
            => /\ slot
               /\ \A v \in ListVariants :
                      Members(Sel[PushList(v)]) =
                          IF \E u \in DOMAIN store :
                                 PushList(store[u].variant) = PushList(v)
                          THEN {u \in DOMAIN store :
                                    PushList(store[u].variant) = PushList(v)}
                          ELSE Members(DEFAULT_GENERAL_RELAYS)

\* C27: once a call has left the gate of a process whose store holds records,
\* every record's URL is registered with the record's five statistics fields,
\* no active connection, and the record's weight as both weights.
C27_RecordsAdoptedVerbatim ==
    \A t \in Tasks :
        (store # StoreNew /\ LeftGate(t))
            => \A u \in DOMAIN store :
                   /\ u \in Known
                   /\ statistics[u].requests = store[u].requests
                   /\ statistics[u].successful_requests
                          = store[u].successful_requests
                   /\ statistics[u].response_times = store[u].response_times
                   /\ statistics[u].trust_level = store[u].trust_level
                   /\ statistics[u].vendor_score = store[u].vendor_score
                   /\ statistics[u].active_connections = 0
                   /\ u \in DOMAIN initial_weights
                   /\ initial_weights[u] = store[u].weight
                   /\ u \in DOMAIN current_weights
                   /\ current_weights[u] = store[u].weight

\* C28: an add_relay never ends by a panic, because each mutator run on the
\* fresh Statistics that insert registers returns weights.
C28_InsertNeverPanics ==
    last.op = "add_relay" =>
        /\ last.out # "panic"
        /\ ~update_trust_level(StatisticsNew,
                               get_trust_level("ok", last.url)).panic
        /\ ~update_vendor_score(StatisticsNew,
                                get_vendor_score("ok", last.url)).panic
        /\ ~add_request(StatisticsNew, TRUE).panic
        /\ ~add_response_time(StatisticsNew, 1).panic

\* C29: a get_relay that ends well returns the URL that was at index rank of
\* the variant's list before the call, raises that URL's active_connections
\* by exactly one, leaves the statistics and both weights of every other URL
\* as they were, and leaves each list with the URLs it had.
C29_CheckoutTouchesOneRelay ==
    [][LET Checked(u, list) ==
               /\ u = RelayAt(list, last'.rank)
               /\ statistics'[u].active_connections
                      = statistics[u].active_connections + 1
               /\ DOMAIN statistics' = DOMAIN statistics
               /\ \A w \in Urls \ {u} :
                      /\ w \in DOMAIN statistics
                             => statistics'[w] = statistics[w]
                      /\ w \in DOMAIN initial_weights
                             => /\ w \in DOMAIN initial_weights'
                                /\ initial_weights'[w] = initial_weights[w]
                      /\ w \in DOMAIN current_weights
                             => /\ w \in DOMAIN current_weights'
                                /\ current_weights'[w] = current_weights[w]
               /\ Members(general') = Members(general)
               /\ Members(inbox') = Members(inbox)
               /\ Members(outbox') = Members(outbox)
       IN  (last'.op = "get_relay" /\ last'.out = "ok")
               => Checked(last'.url,
                          Sel[PushList(from_str(last'.relay_type))])]_vars

\* How often URL u stands in a list.
Occurrences(list, u) == Cardinality({i \in 1..Len(list) : list[i] = u})

\* How often URL u stands in the three lists of selector sel together.
Listed(sel, u) ==
    Occurrences(sel.general, u) + Occurrences(sel.inbox, u)
        + Occurrences(sel.outbox, u)

C31_InsertKeepsStatistics ==
    [][(last'.op = "add_relay" /\ last'.url \in Known)
          => /\ last'.url \in DOMAIN statistics'
             /\ statistics'[last'.url].requests
                    = statistics[last'.url].requests
             /\ statistics'[last'.url].successful_requests
                    = statistics[last'.url].successful_requests
             /\ statistics'[last'.url].response_times
                    = statistics[last'.url].response_times
             /\ statistics'[last'.url].active_connections
                    = statistics[last'.url].active_connections]_vars

\* C32: no list holds the same URL more than once, whatever calls of
\* add_relay, record_request and record_response_time were made.
C32_NoUrlTwiceInAList ==
    \A u \in Urls :
        /\ Occurrences(general, u) <= 1
        /\ Occurrences(inbox, u) <= 1
        /\ Occurrences(outbox, u) <= 1

====
